---- MODULE Spec2Model ----
(***************************************************************************)
(* Model of raysect/optical/observer/refactored_cameras.py: the Camera     *)
(* observer, its progressive accumulation, the sequential engine           *)
(* (_observe_single) and the worker-pool engine (_observe_parallel with    *)
(* _producer and _worker processes connected by two queues).               *)
(*                                                                         *)
(* Python floats are modelled by exact rationals <<numerator, denominator>>*)
(* in lowest terms.  The pixel grid self._pixels is modelled by its        *)
(* dimensions <<nx, ny>>.  The pixel sampler followed by spectrum_to_ciexyz*)
(* is an external collaborator: it returns any triple of XYZValues, or     *)
(* raises.                                                                 *)
(***************************************************************************)
EXTENDS Integers, Sequences, FiniteSets, TLC

\* ------------------------------------------------------------------ bounds

\* observe() is not started once it would take accumulated_samples above this
MaxAccumulated == 4
\* no worker-pool pass is started once it would create more pools than this
MaxPools == 2
\* the sampler raises at most this many times in a behaviour
MaxFailures == 1

\* constructor arguments explored (the constructor accepts any of them)
PixelDims == {<<1, 1>>, <<2, 1>>}
SpectralRaysArgs == {0, 1, 2}
PixelSamplesArgs == {0, 1}
ProcessCountArgs == {0, 1, 2}
\* values a client assigns to the attribute rays, which the class never sets:
\* 2 differs from spectral_rays = 1 and equals spectral_rays = 2
RaysValues == {2}
\* tristimulus triples the sampler can return
XYZValues == {<<0, 1, 2>>, <<2, 0, 1>>}

\* ------------------------------------------------------------- arithmetic

RECURSIVE GCD(_, _)
GCD(a, b) == IF b = 0 THEN a ELSE GCD(b, a % b)

\* the float n / d (n >= 0, d > 0)
Frac(n, d) == LET g == GCD(n, d) IN <<n \div g, d \div g>>

RAdd(p, q) == Frac(p[1] * q[2] + q[1] * p[2], p[2] * q[2])
RMul(p, q) == Frac(p[1] * q[1], p[2] * q[2])

Zero3 == << <<0, 1>>, <<0, 1>>, <<0, 1>> >>
Scale3(w, t) == [k \in 1..3 |-> RMul(w, t[k])]
\* t + w * xyz for an integer triple xyz
AddWeighted3(t, w, xyz) == [k \in 1..3 |-> RAdd(t[k], RMul(w, <<xyz[k], 1>>))]

\* ------------------------------------------------------------------ state

\* rays is <<>> while the object has no attribute rays, and <<r>> once assigned
NoAttr == <<>>
\* the sentinel None of the task queue; a pixel task is <<x, y>>
None == <<>>

VARIABLES
    pixels,               \* <<nx, ny>>: the shape of self._pixels
    spectral_rays, pixel_samples, process_count,
    rays,                 \* the attribute self.rays, NoAttr until assigned
    accumulate, accumulated_samples,
    xyz_frame, frame,     \* [y, x] -> triple
    root_is_world,        \* isinstance(self.root, World)
    variant,              \* "Camera" or "Derived" (overrides _rebuild_pixels)
    pc, error,            \* where observe() is; how the last observe() ended
    wvl_channels, weights,
    channel, iy, ix,      \* loop indices of the engines
    pixel, sent,          \* collection loop index; sentinels put so far
    pools,                \* one record per channel run by the worker-pool engine
    base,                 \* history: the buffers the engine of this pass started from,
                          \* and whether samples were accumulated when observe() was called
    sampled, folded,      \* history: per (channel, x, y) sampler calls / folds this pass
    contrib,              \* history: per cell, sum of the values folded this pass
    sumN, sumNM, chain_ok, \* history: sums over the successful progressive calls
    failures              \* history: how many times the sampler has raised

camera == <<pixels, spectral_rays, pixel_samples, process_count, variant>>
config == <<rays, accumulate, root_is_world>>
buffers == <<xyz_frame, frame, accumulated_samples>>
locals == <<wvl_channels, weights, channel, iy, ix, pixel, sent>>
history == <<base, sampled, folded, contrib, sumN, sumNM, chain_ok, failures>>
vars == <<camera, config, buffers, pc, error, locals, pools, history>>

nx == pixels[1]
ny == pixels[2]
Cells == (0..(ny - 1)) \X (0..(nx - 1))
total_pixels == nx * ny

\* numpy zeros((pixels[1], pixels[0], 3))
zeros == [c \in Cells |-> Zero3]
IntZeros == [c \in Cells |-> <<0, 0, 0>>]

Keys == (0..(spectral_rays - 1)) \X (0..(nx - 1)) \X (0..(ny - 1))
NoCalls == [k \in Keys |-> 0]

\* the colour conversion ciexyz_to_srgb: each component clipped to [0, 1]
ciexyz_to_srgb(t) == [k \in 1..3 |-> IF t[k][1] > t[k][2] THEN <<1, 1>> ELSE t[k]]

min_wavelength == 375
max_wavelength == 740
spectral_samples == 20

\* mutant: every channel starts at min_wavelength
calc_wvl_channel_config_from_min ==
    LET delta_wavelength == Frac(max_wavelength - min_wavelength, spectral_rays)
    IN [index \in 1..spectral_rays |->
           << <<min_wavelength, 1>>,
              RAdd(<<min_wavelength, 1>>, RMul(delta_wavelength, <<index, 1>>)),
              spectral_samples >>]

\* Camera._calc_wvl_channel_config (spectral_rays # 0)
calc_wvl_channel_config ==
    LET delta_wavelength == Frac(max_wavelength - min_wavelength, spectral_rays)
    IN [index \in 1..spectral_rays |->
           << RAdd(<<min_wavelength, 1>>, RMul(delta_wavelength, <<index - 1, 1>>)),
              RAdd(<<min_wavelength, 1>>, RMul(delta_wavelength, <<index, 1>>)),
              spectral_samples >>]

\* total_samples of _observe_single, from the samples already accumulated
SingleTotal(acc) == acc + pixel_samples * spectral_rays

\* previous_weight and added_weight of _observe_single (total_samples # 0)
SingleWeights(acc) ==
    [total_samples |-> SingleTotal(acc),
     previous_weight |-> Frac(acc, SingleTotal(acc)),
     added_weight |-> Frac(spectral_rays * pixel_samples, SingleTotal(acc))]

\* total_samples of _observe_parallel, which reads self.rays
ParallelTotal(acc) == acc + pixel_samples * rays[1]

\* previous_weight and added_weight of _observe_parallel (total_samples # 0)
ParallelWeights(acc) ==
    [total_samples |-> ParallelTotal(acc),
     previous_weight |-> Frac(acc, ParallelTotal(acc)),
     added_weight |-> Frac(rays[1] * pixel_samples, ParallelTotal(acc))]

NoBase == [xyz_frame |-> zeros, accumulated_samples |-> 0, dirty |-> FALSE]
NoWeights == [total_samples |-> 0, previous_weight |-> <<0, 1>>, added_weight |-> <<0, 1>>]

\* the locals of observe() and of its engine, outside a call
NoLocals ==
    /\ wvl_channels = <<>>
    /\ weights = NoWeights
    /\ channel = 0 /\ iy = 0 /\ ix = 0 /\ pixel = 0 /\ sent = 0

\* the history of a pass, outside a call
NoPass ==
    /\ base = NoBase
    /\ sampled = NoCalls
    /\ folded = NoCalls
    /\ contrib = IntZeros

\* observe() returns or raises: its locals and the pass's history are gone
EndCall ==
    /\ wvl_channels' = <<>>
    /\ weights' = NoWeights
    /\ channel' = 0 /\ iy' = 0 /\ ix' = 0 /\ pixel' = 0 /\ sent' = 0
    /\ base' = NoBase
    /\ sampled' = NoCalls
    /\ folded' = NoCalls
    /\ contrib' = IntZeros

Init ==
    /\ pixels \in PixelDims
    /\ spectral_rays \in SpectralRaysArgs
    /\ pixel_samples \in PixelSamplesArgs
    /\ process_count \in ProcessCountArgs
    /\ variant \in {"Camera", "Derived"}
    /\ root_is_world \in BOOLEAN
    /\ rays = NoAttr
    /\ accumulate = FALSE
    /\ accumulated_samples = 0
    /\ xyz_frame = zeros
    /\ frame = zeros
    /\ pc = "idle"
    /\ error = "none"
    /\ NoLocals
    /\ pools = <<>>
    /\ NoPass
    /\ sumN = 0
    /\ sumNM = IntZeros
    /\ chain_ok = TRUE
    /\ failures = 0

\* ------------------------------------------------- the client's assignments

\* camera.accumulate = b  (the attribute of line 56; there is no setter)
SetAccumulate ==
    /\ pc = "idle"
    /\ accumulate' = ~accumulate
    /\ UNCHANGED <<camera, rays, root_is_world, buffers, pc, error, locals, pools, history>>

\* camera.rays = r  (read by _start_statistics and _observe_parallel)
SetRays ==
    /\ pc = "idle"
    /\ \E r \in RaysValues : <<r>> # rays /\ rays' = <<r>>
    /\ UNCHANGED <<camera, accumulate, root_is_world, buffers, pc, error, locals, pools, history>>

\* camera.parent = node: the camera joins or leaves a scene graph with a World
SetParent ==
    /\ pc = "idle"
    /\ root_is_world' = ~root_is_world
    /\ UNCHANGED <<camera, rays, accumulate, buffers, pc, error, locals, pools, history>>

\* ------------------------------------------------------------- observe()

Snapshot == [xyz_frame |-> xyz_frame, frame |-> frame,
             accumulated_samples |-> accumulated_samples]

\* mutant: the reset forgets accumulated_samples
AfterReset_keeps_count ==
    IF accumulate THEN Snapshot
    ELSE [xyz_frame |-> zeros, frame |-> zeros,
          accumulated_samples |-> accumulated_samples]

\* lines 88-91: fresh buffers unless accumulating
AfterReset ==
    IF accumulate THEN Snapshot
    ELSE [xyz_frame |-> zeros, frame |-> zeros, accumulated_samples |-> 0]

\* which engine observe() selects (line 100)
UsesSingle == process_count = 1

\* mutant: the root check comes after the reset
NotConnectedBuffers_after_reset == AfterReset

\* lines 84-85: the root check raises before the buffers are touched
NotConnectedBuffers == Snapshot

\* observe() fails after the buffers became b
Raise(kind, b) ==
    /\ pc' = "idle"
    /\ error' = kind
    /\ xyz_frame' = b.xyz_frame
    /\ frame' = b.frame
    /\ accumulated_samples' = b.accumulated_samples
    /\ EndCall

\* observe(), from the call to the engine's first loop iteration: the root
\* check, the reset, the channel plan, _rebuild_pixels, then the engine's
\* _start_statistics, weightings and scaling of the existing frame
observe ==
    /\ pc = "idle"
    /\ (IF accumulate THEN accumulated_samples ELSE 0)
           + pixel_samples * spectral_rays <= MaxAccumulated
    /\ ~UsesSingle => Len(pools) + spectral_rays <= MaxPools
    /\ UNCHANGED <<camera, config, pools, failures>>
    /\ IF ~root_is_world
       THEN /\ Raise("TypeError", NotConnectedBuffers)
            /\ UNCHANGED <<sumN, sumNM, chain_ok>>
       ELSE
         LET b == AfterReset IN
         /\ IF accumulate THEN UNCHANGED <<sumN, sumNM, chain_ok>>
            ELSE sumN' = 0 /\ sumNM' = IntZeros /\ chain_ok' = TRUE
         /\ IF spectral_rays = 0
            THEN Raise("ZeroDivisionError", b)
            ELSE
              /\ IF variant = "Camera" THEN Raise("NotImplementedError", b)
                 ELSE IF rays = NoAttr THEN Raise("AttributeError", b)
                 ELSE IF (IF UsesSingle THEN SingleTotal(b.accumulated_samples)
                          ELSE ParallelTotal(b.accumulated_samples)) = 0
                 THEN Raise("ZeroDivisionError", b)
                 ELSE
                   LET w == IF UsesSingle THEN SingleWeights(b.accumulated_samples)
                            ELSE ParallelWeights(b.accumulated_samples)
                   IN /\ wvl_channels' = calc_wvl_channel_config
                      /\ weights' = w
                      /\ sampled' = NoCalls /\ folded' = NoCalls /\ contrib' = IntZeros
                      /\ xyz_frame' = [c \in Cells |-> Scale3(w.previous_weight, b.xyz_frame[c])]
                      /\ frame' = b.frame
                      /\ accumulated_samples' = b.accumulated_samples
                      /\ base' = [xyz_frame |-> b.xyz_frame,
                                  accumulated_samples |-> b.accumulated_samples,
                                  dirty |-> accumulated_samples > 0]
                      /\ pc' = IF UsesSingle THEN "single" ELSE "spawn"
                      /\ error' = "none"
                      /\ channel' = 0 /\ iy' = 0 /\ ix' = 0 /\ pixel' = 0 /\ sent' = 0

\* mutant: every fold attenuates the cell again
FoldXYZ_rescales(f, y, x, xyz) ==
    [f EXCEPT ![<<y, x>>] =
        AddWeighted3(Scale3(weights.previous_weight, @), weights.added_weight, xyz)]

\* lines 141-146 and 207-212: fold one contribution into cell <<y, x>>
FoldXYZ(f, y, x, xyz) ==
    [f EXCEPT ![<<y, x>>] = AddWeighted3(@, weights.added_weight, xyz)]

Count(h, c, x, y) == [h EXCEPT ![<<c, x, y>>] = @ + 1]
AddContrib(y, x, xyz) ==
    [contrib EXCEPT ![<<y, x>>] = [k \in 1..3 |-> @[k] + xyz[k]]]

\* one iteration of the pixel loop of _observe_single (lines 135-151)
single_pixel ==
    /\ pc = "single"
    /\ \E xyz \in XYZValues :
         /\ xyz_frame' = FoldXYZ(xyz_frame, iy, ix, xyz)
         /\ frame' = [frame EXCEPT ![<<iy, ix>>] = ciexyz_to_srgb(xyz_frame'[<<iy, ix>>])]
         /\ contrib' = AddContrib(iy, ix, xyz)
    /\ sampled' = Count(sampled, channel, ix, iy)
    /\ folded' = Count(folded, channel, ix, iy)
    /\ IF ix + 1 < nx THEN ix' = ix + 1 /\ UNCHANGED <<iy, channel, pc>>
       ELSE IF iy + 1 < ny THEN ix' = 0 /\ iy' = iy + 1 /\ UNCHANGED <<channel, pc>>
       ELSE IF channel + 1 < Len(wvl_channels)
            THEN ix' = 0 /\ iy' = 0 /\ channel' = channel + 1 /\ UNCHANGED pc
       ELSE pc' = "finish" /\ UNCHANGED <<ix, iy, channel>>
    /\ UNCHANGED <<camera, config, accumulated_samples, error, wvl_channels, weights,
                   pixel, sent, pools, base, sumN, sumNM, chain_ok, failures>>

\* mutant: the failing pass is rolled back
single_pixel_raise_rollback ==
    /\ pc = "single"
    /\ failures < MaxFailures
    /\ failures' = failures + 1
    /\ pc' = "idle"
    /\ error' = "SamplingFailure"
    /\ chain_ok' = FALSE
    /\ xyz_frame' = base.xyz_frame
    /\ EndCall
    /\ UNCHANGED <<camera, config, frame, accumulated_samples, pools, sumN, sumNM>>

\* pixel.sample_pixel raises inside _observe_single: observe() ends there
single_pixel_raise ==
    /\ pc = "single"
    /\ failures < MaxFailures
    /\ failures' = failures + 1
    /\ pc' = "idle"
    /\ error' = "SamplingFailure"
    /\ chain_ok' = FALSE
    /\ EndCall
    /\ UNCHANGED <<camera, config, buffers, pools, sumN, sumNM>>

\* mutant: the engine's return does not advance the counter
observe_return_no_count ==
    /\ pc = "finish"
    /\ pc' = "idle"
    /\ error' = "ok"
    /\ sumN' = sumN + pixel_samples * spectral_rays
    /\ sumNM' = [c \in Cells |->
                   [k \in 1..3 |-> sumNM[c][k] + pixel_samples * spectral_rays * contrib[c][k]]]
    /\ EndCall
    /\ UNCHANGED <<camera, config, buffers, pools, chain_ok, failures>>

\* the engine has returned: line 106
observe_return ==
    /\ pc = "finish"
    /\ accumulated_samples' = accumulated_samples + pixel_samples * spectral_rays
    /\ pc' = "idle"
    /\ error' = "ok"
    /\ sumN' = sumN + pixel_samples * spectral_rays
    /\ sumNM' = [c \in Cells |->
                   [k \in 1..3 |-> sumNM[c][k] + pixel_samples * spectral_rays * contrib[c][k]]]
    /\ EndCall
    /\ UNCHANGED <<camera, config, xyz_frame, frame, pools, chain_ok, failures>>

\* ------------------------------------------------- the worker-pool engine

\* the pixel coordinates (x, y), which are the tasks
Coords == (0..(nx - 1)) \X (0..(ny - 1))

\* mutant: the producer's x never advances
TaskAt_x_stuck(k) == <<0, k \div nx>>

\* the k-th coordinate (x, y) that _producer puts: rows of y, x fastest
TaskAt(k) == <<k % nx, k \div nx>>

\* lines 184-198: the queues, the producer and the workers of one channel.
\* The workers run the same code on the same arguments and are told apart by
\* nothing, so a pool keeps how many of them are in each place: waiting in
\* task_queue.get(), sampling a given task, stopped by a sentinel, or ended by
\* an exception.
NewPool(c) ==
    [channel |-> c,
     task_queue |-> <<>>,
     result_queue |-> <<>>,
     producer |-> [put |-> 0, alive |-> TRUE],
     waiting |-> process_count,
     sampling |-> [t \in Coords |-> 0],
     done |-> 0,
     crashed |-> 0]

Pools == 1..Len(pools)
\* the pool of the channel the coordinator is collecting
current == Len(pools)

\* the coordinator starts the processes of the next channel (lines 176-198)
start_channel ==
    /\ pc = "spawn"
    /\ pools' = Append(pools, NewPool(channel))
    /\ pixel' = 0
    /\ sent' = 0
    /\ pc' = "collect"
    /\ UNCHANGED <<camera, config, buffers, error, wvl_channels, weights, channel, iy, ix,
                   history>>

\* _producer: task_queue.put((x, y))
producer_put(p) ==
    /\ pools[p].producer.alive
    /\ pools[p].producer.put < total_pixels
    /\ pools' = [pools EXCEPT ![p].task_queue = Append(@, TaskAt(pools[p].producer.put)),
                              ![p].producer.put = @ + 1]
    /\ UNCHANGED <<camera, config, buffers, pc, error, locals, history>>

\* _producer returns and its process ends
producer_exit(p) ==
    /\ pools[p].producer.alive
    /\ pools[p].producer.put = total_pixels
    /\ pools' = [pools EXCEPT ![p].producer.alive = FALSE]
    /\ UNCHANGED <<camera, config, buffers, pc, error, locals, history>>

\* _worker: pixel = task_queue.get(); a None ends the loop and the process
worker_get(p) ==
    /\ pools[p].waiting > 0
    /\ pools[p].task_queue # <<>>
    /\ LET task == Head(pools[p].task_queue)
       IN pools' = IF task = None
                   THEN [pools EXCEPT ![p].task_queue = Tail(@),
                                      ![p].waiting = @ - 1,
                                      ![p].done = @ + 1]
                   ELSE [pools EXCEPT ![p].task_queue = Tail(@),
                                      ![p].waiting = @ - 1,
                                      ![p].sampling[task] = @ + 1]
    /\ UNCHANGED <<camera, config, buffers, pc, error, locals, history>>

\* mutant: the worker folds its result into the frame itself
worker_sample_writes(p, t) ==
    /\ pools[p].sampling[t] > 0
    /\ \E xyz \in XYZValues :
         /\ pools' = [pools EXCEPT ![p].result_queue = Append(@, <<t, xyz>>),
                                   ![p].sampling[t] = @ - 1,
                                   ![p].waiting = @ + 1]
         /\ xyz_frame' = FoldXYZ(xyz_frame, t[2], t[1], xyz)
    /\ sampled' = Count(sampled, pools[p].channel, t[1], t[2])
    /\ UNCHANGED <<camera, config, frame, accumulated_samples, pc, error, locals, base,
                   folded, contrib, sumN, sumNM, chain_ok, failures>>

\* _worker: sample the pixel t, convert, result_queue.put((pixel, xyz, ray_count));
\* ray_count only feeds the statistics and is left out of the message
worker_sample(p, t) ==
    /\ pools[p].sampling[t] > 0
    /\ \E xyz \in XYZValues :
         pools' = [pools EXCEPT ![p].result_queue = Append(@, <<t, xyz>>),
                                ![p].sampling[t] = @ - 1,
                                ![p].waiting = @ + 1]
    /\ sampled' = Count(sampled, pools[p].channel, t[1], t[2])
    /\ UNCHANGED <<camera, config, buffers, pc, error, locals, base, folded, contrib,
                   sumN, sumNM, chain_ok, failures>>

\* _worker: the sampler raises on pixel t; nothing catches it, so the process
\* ends there and puts no result
worker_raise(p, t) ==
    /\ pools[p].sampling[t] > 0
    /\ failures < MaxFailures
    /\ failures' = failures + 1
    /\ pools' = [pools EXCEPT ![p].sampling[t] = @ - 1,
                              ![p].crashed = @ + 1]
    /\ sampled' = Count(sampled, pools[p].channel, t[1], t[2])
    /\ UNCHANGED <<camera, config, buffers, pc, error, locals, base, folded, contrib,
                   sumN, sumNM, chain_ok>>

\* mutant: the collection loop ends after its first result
LastResult_first == TRUE

\* line 201: for pixel in range(total_pixels) ends after this iteration
LastResult == pixel + 1 >= total_pixels

\* mutant: the collection loop folds the result and leaves frame alone
collect_no_display ==
    /\ pc = "collect"
    /\ pools[current].result_queue # <<>>
    /\ LET result == Head(pools[current].result_queue)
           x == result[1][1]
           y == result[1][2]
           xyz == result[2]
       IN /\ xyz_frame' = FoldXYZ(xyz_frame, y, x, xyz)
          /\ contrib' = AddContrib(y, x, xyz)
          /\ folded' = Count(folded, channel, x, y)
    /\ pools' = [pools EXCEPT ![current].result_queue = Tail(@)]
    /\ pixel' = pixel + 1
    /\ pc' = IF LastResult THEN "shutdown" ELSE "collect"
    /\ UNCHANGED <<camera, config, frame, accumulated_samples, error, wvl_channels,
                   weights, channel, iy, ix, sent, base, sampled, sumN, sumNM, chain_ok,
                   failures>>

\* the coordinator: one iteration of the collection loop (lines 201-216)
collect ==
    /\ pc = "collect"
    /\ pools[current].result_queue # <<>>
    /\ LET result == Head(pools[current].result_queue)
           x == result[1][1]
           y == result[1][2]
           xyz == result[2]
       IN /\ xyz_frame' = FoldXYZ(xyz_frame, y, x, xyz)
          /\ frame' = [frame EXCEPT ![<<y, x>>] = ciexyz_to_srgb(xyz_frame'[<<y, x>>])]
          /\ contrib' = AddContrib(y, x, xyz)
          /\ folded' = Count(folded, channel, x, y)
    /\ pools' = [pools EXCEPT ![current].result_queue = Tail(@)]
    /\ pixel' = pixel + 1
    /\ pc' = IF LastResult THEN "shutdown" ELSE "collect"
    /\ UNCHANGED <<camera, config, accumulated_samples, error, wvl_channels, weights,
                   channel, iy, ix, sent, base, sampled, sumN, sumNM, chain_ok, failures>>

\* mutant: the sentinel loop ends after one sentinel
put_sentinel_once ==
    /\ pc = "shutdown"
    /\ sent < process_count
    /\ pools' = [pools EXCEPT ![current].task_queue = Append(@, None)]
    /\ sent' = process_count
    /\ UNCHANGED <<camera, config, buffers, pc, error, wvl_channels, weights, channel,
                   iy, ix, pixel, history>>

\* the coordinator: task_queue.put(None), once per worker (lines 219-220)
put_sentinel ==
    /\ pc = "shutdown"
    /\ sent < process_count
    /\ pools' = [pools EXCEPT ![current].task_queue = Append(@, None)]
    /\ sent' = sent + 1
    /\ UNCHANGED <<camera, config, buffers, pc, error, wvl_channels, weights, channel,
                   iy, ix, pixel, history>>

\* the coordinator: the sentinel loop is over; next channel, or lines 222-224
next_channel ==
    /\ pc = "shutdown"
    /\ sent >= process_count
    /\ IF channel + 1 < Len(wvl_channels)
       THEN channel' = channel + 1 /\ pc' = "spawn"
       ELSE pc' = "finish" /\ UNCHANGED channel
    /\ UNCHANGED <<camera, config, buffers, error, wvl_channels, weights, iy, ix, pixel,
                   sent, pools, history>>

Next ==
    \/ SetAccumulate \/ SetRays \/ SetParent
    \/ observe \/ single_pixel \/ single_pixel_raise \/ observe_return
    \/ start_channel \/ collect \/ put_sentinel \/ next_channel
    \/ \E p \in Pools : producer_put(p) \/ producer_exit(p)
    \/ \E p \in Pools : worker_get(p)
    \/ \E p \in Pools : \E t \in Coords : worker_sample(p, t) \/ worker_raise(p, t)

Spec == Init /\ [][Next]_vars

\* ------------------------------------------------------------------ claims

\* the pools created by the pass in progress
PassPools == {p \in Pools : p > Len(pools) - (channel + 1)}

\* what _observe_single leaves in cell c, from the buffers the engine started
\* with and the values folded into the cell during the pass
SingleResult(c) ==
    LET w == SingleWeights(base.accumulated_samples)
    IN [k \in 1..3 |-> RAdd(RMul(w.previous_weight, base.xyz_frame[c][k]),
                            RMul(w.added_weight, <<contrib[c][k], 1>>))]

\* the sequential engine leaves SingleResult
SingleLeavesSingleResult ==
    (pc = "finish" /\ UsesSingle) => \A c \in Cells : xyz_frame[c] = SingleResult(c)

\* C1: after k >= 1 successful observe() calls since accumulated_samples was 0,
\* call i folding N_i = pixel_samples * spectral_rays sample units and
\* contributing m_i to a cell (the sum of the values it folded into the cell),
\* every cell of xyz_frame is (sum of N_i * m_i) / (sum of N_i).
C1_WeightedMean ==
    (pc = "idle" /\ error = "ok" /\ chain_ok /\ sumN > 0)
        => \A c \in Cells : \A k \in 1..3 : xyz_frame[c][k] = Frac(sumNM[c][k], sumN)

\* the same, for the passes of the sequential engine only
C1_WeightedMeanSingle == UsesSingle => C1_WeightedMean

\* C2: a pass run with accumulate disabled leaves in every cell the values
\* folded during that pass and nothing else, and leaves accumulated_samples at
\* that pass's pixel_samples * spectral_rays, whatever the buffers held before.
C2_ResetInvariant ==
    [][(observe_return /\ ~accumulate)
          => /\ \A c \in Cells : \A k \in 1..3 : xyz_frame'[c][k] = <<contrib[c][k], 1>>
             /\ accumulated_samples' = pixel_samples * spectral_rays]_vars

C2_Witness ==
    /\ pc = "finish" /\ ~accumulate /\ base.dirty
    /\ \E c \in Cells : contrib[c] # <<0, 0, 0>>

\* C3: the worker-pool engine leaves the xyz_frame the sequential engine leaves
\* from the same buffers and the same sampler values, and computes the same
\* previous_weight and added_weight.
C3_EngineEquivalence ==
    (pc = "finish" /\ ~UsesSingle)
        => /\ \A c \in Cells : xyz_frame[c] = SingleResult(c)
           /\ weights.previous_weight = SingleWeights(base.accumulated_samples).previous_weight
           /\ weights.added_weight = SingleWeights(base.accumulated_samples).added_weight

\* C4: in one pass the sampler is called at most once per (channel, coordinate)
\* and each contribution is folded at most once; when the engine returns, every
\* coordinate of every channel was sampled exactly once and folded exactly once.
C4_Coverage ==
    /\ \A key \in Keys : folded[key] <= sampled[key] /\ sampled[key] <= 1
    /\ pc = "finish" => \A key \in Keys : sampled[key] = 1 /\ folded[key] = 1

C4_Witness ==
    /\ pc = "finish" /\ ~UsesSingle
    /\ spectral_rays = 2 /\ total_pixels = 2
    /\ \A key \in Keys : folded[key] = 1

\* C5: when _observe_parallel has returned, every worker and every producer
\* started during the pass has terminated.
C5_ShutdownSafety ==
    (pc = "finish" /\ ~UsesSingle)
        => \A p \in PassPools :
              /\ ~pools[p].producer.alive
              /\ pools[p].done = process_count

CountNone(q) == Cardinality({i \in 1..Len(q) : q[i] = None})
\* the workers of pool p that hold a task
Sampling(p) == {t \in Coords : pools[p].sampling[t] > 0}
\* the coordinator is past the sentinel loop of pool p
Left(p) == p < current \/ pc \in {"spawn", "finish", "idle"}

\* C6: no sentinel is put on a channel's task queue before all total_pixels
\* results of the channel are received, so once a sentinel was put no pixel
\* task is queued or being processed; the coordinator puts exactly as many
\* sentinels as it started workers.
C6_SentinelOrdering ==
    \A p \in Pools :
        LET q == pools[p].task_queue
            put == CountNone(q) + pools[p].done
        IN /\ put <= process_count
           /\ (p = current /\ pc = "collect") => put = 0
           /\ (p = current /\ pc = "shutdown") => put = sent /\ pixel = total_pixels
           /\ Left(p) => put = process_count
           /\ put > 0 =>
                 /\ \A i \in 1..Len(q) : q[i] = None
                 /\ Sampling(p) = {}
                 /\ pools[p].result_queue = <<>>
                 /\ pools[p].producer.put = total_pixels

C6_Witness ==
    /\ process_count = 2 /\ total_pixels = 2
    /\ \E p \in Pools : CountNone(pools[p].task_queue) = 2

\* the coordinator waits in result_queue.get() and no process of the channel
\* can take a step that leads to a result
CoordinatorStuck ==
    /\ pc = "collect"
    /\ pools[current].result_queue = <<>>
    /\ pools[current].producer.put = total_pixels
    /\ Sampling(current) = {}
    /\ pools[current].task_queue = <<>> \/ pools[current].waiting = 0

\* C7: after the sampler failed in a worker the coordinator does not stay
\* blocked on result_queue.get(): the failure reaches it and observe() ends.
C7_WorkerFailureHandled ==
    \A p \in Pools :
        pools[p].crashed > 0 => ~(p = current /\ CoordinatorStuck)

\* a step of a producer or of a worker
ProcessStep ==
    \E p \in Pools :
        \/ producer_put(p) \/ producer_exit(p)
        \/ worker_get(p)
        \/ \E t \in Coords : worker_sample(p, t) \/ worker_raise(p, t)

\* a step of the coordinator that may write the buffers
CoordinatorWrite == observe \/ single_pixel \/ collect \/ observe_return

\* C8: a step of a producer or worker changes only the queues and the
\* processes' own state, never xyz_frame, frame or accumulated_samples, which
\* change only in steps of the coordinator.
C8_SingleWriter ==
    [][/\ ProcessStep => UNCHANGED <<camera, config, buffers, pc, error, locals>>
       /\ buffers' # buffers => CoordinatorWrite]_vars

C8_Witness ==
    /\ pc = "collect" /\ pixel >= 1
    /\ xyz_frame # zeros
    /\ Sampling(current) # {}

\* C9: observe() with no World at the root raises, leaves xyz_frame, frame and
\* accumulated_samples as they were, samples nothing and starts no process.
C9_NotConnected ==
    [][(observe /\ ~root_is_world)
          => /\ pc' = "idle" /\ error' = "TypeError"
             /\ UNCHANGED <<buffers, pools>>
             /\ sampled' = NoCalls]_vars

C9_Witness ==
    /\ pc = "idle" /\ error = "TypeError"
    /\ ~accumulate /\ accumulated_samples > 0 /\ xyz_frame # zeros

\* C10: construction rejects spectral_rays < 1, pixel_samples < 1 and
\* process_count < 1, so every camera observe() has been called on has counts
\* of at least 1: observe() never divides by a zero channel count or a zero
\* sample count and never collects from zero workers.
C10_CountsValidated ==
    /\ error # "ZeroDivisionError"
    /\ pc # "idle" => spectral_rays >= 1 /\ pixel_samples >= 1 /\ process_count >= 1

\* C11: a successful observe() sets accumulated_samples to (0 if accumulate is
\* disabled, else its previous value) + pixel_samples * spectral_rays, in one
\* step at its end: the call starts the engine with the reset or kept count,
\* no step of the engine changes it, and the return adds the pass's sample
\* units; the count is never negative and never decreases in a progressive call.
C11_AccumulationCounter ==
    [][/\ accumulated_samples' >= 0
       /\ (observe /\ pc' # "idle")
             => accumulated_samples' = IF accumulate THEN accumulated_samples ELSE 0
       /\ (pc \notin {"idle", "finish"}) => accumulated_samples' = accumulated_samples
       /\ observe_return
             => /\ accumulated_samples'
                     = base.accumulated_samples + pixel_samples * spectral_rays
                /\ base.accumulated_samples = accumulated_samples
                /\ accumulate => accumulated_samples' >= accumulated_samples
                /\ (pixel_samples = 1 /\ spectral_rays = 1)
                      => accumulated_samples' = sumN + 1]_vars

\* two progressive calls with pixel_samples = spectral_rays = 1 have returned
C11_Witness ==
    /\ pc = "idle" /\ error = "ok" /\ accumulate
    /\ pixel_samples = 1 /\ spectral_rays = 1
    /\ accumulated_samples = 2 /\ sumN = 2

\* ------------------------------------------------- the channel planner alone

\* the largest spectral_rays the planner is applied to
MaxRays == 6

\* a camera constructed with spectral_rays in 1..MaxRays
PlannerInit ==
    /\ pixels \in PixelDims
    /\ spectral_rays \in 1..MaxRays
    /\ pixel_samples \in PixelSamplesArgs
    /\ process_count \in ProcessCountArgs
    /\ variant \in {"Camera", "Derived"}
    /\ root_is_world \in BOOLEAN
    /\ rays = NoAttr
    /\ accumulate = FALSE
    /\ accumulated_samples = 0
    /\ xyz_frame = zeros
    /\ frame = zeros
    /\ pc = "idle"
    /\ error = "none"
    /\ NoLocals
    /\ pools = <<>>
    /\ NoPass
    /\ sumN = 0
    /\ sumNM = IntZeros
    /\ chain_ok = TRUE
    /\ failures = 0

\* line 94: wvl_channels = self._calc_wvl_channel_config()
plan_channels ==
    /\ pc = "idle"
    /\ wvl_channels = <<>>
    /\ wvl_channels' = calc_wvl_channel_config
    /\ UNCHANGED <<camera, config, buffers, pc, error, weights, channel, iy, ix, pixel,
                   sent, pools, history>>

PlannerSpec == PlannerInit /\ [][plan_channels]_vars

\* p < q for fractions with positive denominators
RLess(p, q) == p[1] * q[2] < q[1] * p[2]

FailsNotImplemented ==
    /\ pc' = "idle" /\ error' = "NotImplementedError"
    /\ sampled' = NoCalls
    /\ pools' = pools
    /\ accumulated_samples' = AfterReset.accumulated_samples

\* C13: observe() on a connected camera runs _rebuild_pixels before any pixel
\* is sampled, and a camera variant without that step fails observe() with
\* NotImplementedError: nothing is sampled, no process is started and no sample
\* units are added to accumulated_samples.
C13_RebuildHook ==
    [][/\ (observe /\ root_is_world /\ variant = "Camera") => FailsNotImplemented
       /\ pc' # "idle" => variant = "Derived"]_vars

\* the same, for the cameras whose spectral_rays is at least 1
C13_RebuildHookValidCounts ==
    [][/\ (observe /\ root_is_world /\ variant = "Camera" /\ spectral_rays >= 1)
             => FailsNotImplemented
       /\ pc' # "idle" => variant = "Derived"]_vars

\* the (channel, x, y) that _observe_single has passed when it is at
\* (channel, ix, iy)
Before(key) ==
    \/ key[1] < channel
    \/ key[1] = channel /\ (key[3] < iy \/ (key[3] = iy /\ key[2] < ix))

\* C14: when the sampler raises in the sequential engine, observe() ends at
\* once with that error; xyz_frame stays the frame the pass started from scaled
\* by previous_weight plus the contributions of exactly the pixels sampled
\* before the failure, and accumulated_samples stays the value the pass
\* started with.
C14_AbortedPass ==
    [][single_pixel_raise
          => /\ pc' = "idle" /\ error' = "SamplingFailure"
             /\ UNCHANGED buffers
             /\ accumulated_samples' = base.accumulated_samples
             /\ \A c \in Cells : xyz_frame'[c] = SingleResult(c)
             /\ \A key \in Keys :
                   /\ sampled[key] = folded[key]
                   /\ folded[key] = IF Before(key) THEN 1 ELSE 0]_vars

\* a first pass over two pixels failed at the second: the first pixel's
\* contribution is in the frame and the count was not advanced
C14_Witness ==
    /\ pc = "idle" /\ error = "SamplingFailure"
    /\ total_pixels = 2
    /\ xyz_frame[<<0, 0>>] # Zero3 /\ xyz_frame[<<0, 1>>] = Zero3
    /\ accumulated_samples = 0

\* the frame a pass started from scaled once by the pass's previous_weight,
\* plus the pass's added_weight times the values folded into cell c so far
PassResult(c) ==
    [k \in 1..3 |-> RAdd(RMul(weights.previous_weight, base.xyz_frame[c][k]),
                         RMul(weights.added_weight, <<contrib[c][k], 1>>))]

\* previous_weight plus added_weight once per channel
WeightSum == RAdd(weights.previous_weight, RMul(<<spectral_rays, 1>>, weights.added_weight))

\* the mean of the samples behind a cell, every sample unit weighing the same:
\* the accumulated_samples units of the starting frame and pixel_samples units
\* for each channel's contribution
UnitMean(c) ==
    [k \in 1..3 |->
        RMul(RAdd(RMul(<<base.accumulated_samples, 1>>, base.xyz_frame[c][k]),
                  <<pixel_samples * contrib[c][k], 1>>),
             Frac(1, base.accumulated_samples + pixel_samples * spectral_rays))]

\* C15 as stated: after a complete pass the weights applied to a cell,
\* previous_weight plus added_weight once per channel contribution, sum to 1
\* for every channel count, and the cell holds the sample-count-weighted mean
\* of the individual contributions.
C15_ChunkingIndependence ==
    pc = "finish"
        => /\ WeightSum = <<1, 1>>
           /\ \A c \in Cells : xyz_frame[c] = UnitMean(c)

\* C15 amended: the existing data is scaled by previous_weight once per call,
\* before any contribution, and every channel's contribution is added with the
\* same added_weight, so throughout a pass each cell is PassResult;
\* previous_weight + added_weight = 1, and the weights applied to a cell sum
\* to 1 exactly when there is one channel or added_weight is 0.
C15_WeightsOfAPass ==
    pc # "idle"
        => /\ \A c \in Cells : xyz_frame[c] = PassResult(c)
           /\ RAdd(weights.previous_weight, weights.added_weight) = <<1, 1>>
           /\ (WeightSum = <<1, 1>>) <=> (spectral_rays = 1 \/ weights.added_weight = <<0, 1>>)

\* a complete progressive pass of two channels over a frame holding two units
C15_Witness ==
    /\ pc = "finish" /\ spectral_rays = 2
    /\ base.accumulated_samples = 2
    /\ \E c \in Cells : contrib[c] # <<0, 0, 0>> /\ base.xyz_frame[c] # Zero3

\* no producer or worker of pool p can take a further step
Quiet(p) ==
    /\ pools[p].producer.put = total_pixels
    /\ Sampling(p) = {}
    /\ pools[p].task_queue = <<>> \/ pools[p].waiting = 0

\* the execution of pool p's channel is over: its processes can take no step
\* and the coordinator will put nothing more on its task queue
ChannelOver(p) == (Left(p) /\ Quiet(p)) \/ (p = current /\ CoordinatorStuck)

\* what C16 says of pool p
OneSentinelEach(p) ==
    LET q == pools[p].task_queue
    IN /\ pools[p].done + CountNone(q) <= process_count
       /\ pools[p].done > 0 =>
             /\ \A i \in 1..Len(q) : q[i] = None
             /\ Sampling(p) = {}
             /\ pools[p].producer.put = total_pixels
       /\ ChannelOver(p) => pools[p].done = process_count /\ CountNone(q) = 0

\* C16: in every execution of a channel each of the W workers dequeues exactly
\* one sentinel, after which it stops, and only when no pixel task is left to
\* receive; no worker dequeues two and none is left without one, so no
\* sentinel remains in the task queue once the workers have stopped.
C16_OneSentinelPerWorker == \A p \in Pools : OneSentinelEach(p)

\* the same, for the channels in which the sampler did not fail
C16_OneSentinelPerWorkerNoFailure ==
    \A p \in Pools : pools[p].crashed = 0 => OneSentinelEach(p)

RECURSIVE SumOver(_, _)
SumOver(f, S) == IF S = {} THEN 0
                 ELSE LET t == CHOOSE t \in S : TRUE IN f[t] + SumOver(f, S \ {t})

\* the workers of pool p whose process has not ended
AliveWorkers(p) == pools[p].waiting + SumOver(pools[p].sampling, Coords)

\* C17: the producer and workers of a channel are started only after every
\* worker of the channel before has terminated: in every state at most W
\* workers and one producer are alive, all of the channel being collected.
C17_PoolLifecycle ==
    /\ \A p \in Pools :
          p < current => AliveWorkers(p) = 0 /\ ~pools[p].producer.alive
    /\ SumOver([p \in Pools |-> AliveWorkers(p)], Pools) <= process_count

\* frame holds the colour conversion of xyz_frame at cell c, after the step
Displayed(c) == frame'[c] = ciexyz_to_srgb(xyz_frame'[c])

\* C18: right after a pixel write of either engine, frame[y, x] is the colour
\* conversion of the current xyz_frame[y, x] of the pixel just written, and
\* when an engine has completed its pass this holds for every pixel.
C18_DisplayGrid ==
    [][/\ single_pixel => Displayed(<<iy, ix>>)
       /\ collect => LET location == Head(pools[current].result_queue)[1]
                     IN Displayed(<<location[2], location[1]>>)
       /\ pc' = "finish" => \A c \in Cells : Displayed(c)]_vars

\* a progressive worker-pool pass is complete and some cell's display value
\* is clipped
C18_Witness ==
    /\ pc = "finish" /\ ~UsesSingle /\ base.dirty
    /\ \E c \in Cells : frame[c] # xyz_frame[c]

\* --------------------------------- the engines with a sampler that returns

\* a camera constructed with at least one worker that uses the worker-pool
\* engine
LiveInit == Init /\ process_count >= 1 /\ ~UsesSingle

\* the steps of the coordinator once observe() has entered _observe_parallel
CoordinatorStep ==
    \/ start_channel \/ collect \/ put_sentinel \/ next_channel
    \/ observe_return

\* the steps of the producer of pool p (p may not exist yet)
ProducerStep(p) == p \in Pools /\ (producer_put(p) \/ producer_exit(p))

\* the steps of the workers of pool p when the sampler returns
WorkerStep(p) ==
    /\ p \in Pools
    /\ worker_get(p) \/ \E t \in Coords : worker_sample(p, t)

\* every step but a failure of the sampler
LiveNext ==
    \/ SetAccumulate \/ SetRays \/ SetParent
    \/ observe
    \/ CoordinatorStep
    \/ \E p \in 1..MaxPools : ProducerStep(p) \/ WorkerStep(p)

\* each process is scheduled again and again while it can take a step; a
\* blocked get() is not a step
LiveSpec ==
    /\ LiveInit /\ [][LiveNext]_vars
    /\ WF_vars(CoordinatorStep)
    /\ \A p \in 1..MaxPools : WF_vars(ProducerStep(p)) /\ WF_vars(WorkerStep(p))

\* the workers of pool p have all dequeued a sentinel and stopped
Stopped(p) == pools[p].done = process_count /\ AliveWorkers(p) = 0

\* the coordinator is inside _observe_parallel
InParallel == pc \in {"spawn", "collect", "shutdown"}

\* C19: with at least one worker, a sampler that always returns and fair
\* scheduling, every channel's collection loop receives all its results, the
\* coordinator returns from _observe_parallel, and every worker dequeues a
\* sentinel and stops; the coordinator is never left waiting on an empty
\* result queue while no process can make progress.  The coordinator leaves
\* a collection loop only with all total_pixels results received and leaves
\* _observe_parallel only after the collection loop of every channel, and a
\* stopped worker stays stopped, so "eventually" is "again and again".
C19_Termination ==
    /\ []<>(~InParallel)
    /\ \A p \in 1..MaxPools : []<>(p \in Pools => Stopped(p))
    /\ [](~CoordinatorStuck)

\* a worker-pool pass of two channels has returned and all its workers have
\* stopped
C19_Witness ==
    /\ pc = "idle" /\ error = "ok" /\ ~UsesSingle
    /\ Len(pools) = 2
    /\ \A p \in Pools : pools[p].done = process_count /\ AliveWorkers(p) = 0

\* ----------------------------------------------------- message conservation

\* the pixel tasks in pool p's task queue
QueuedTasks(p) == Len(pools[p].task_queue) - CountNone(pools[p].task_queue)

\* the tasks that workers of pool p have taken and not yet answered
Held(p) == SumOver(pools[p].sampling, Coords)

\* the results of pool p's channel that the coordinator has folded
Folded(p) == IF p = current /\ pc = "collect" THEN pixel ELSE total_pixels

\* what C20 says of pool p
Conserved(p) ==
    /\ QueuedTasks(p) + Held(p) + Len(pools[p].result_queue) + Folded(p)
          = pools[p].producer.put
    /\ pools[p].producer.put <= total_pixels
    /\ Folded(p) = total_pixels
          => QueuedTasks(p) = 0 /\ Held(p) = 0 /\ pools[p].result_queue = <<>>

\* C20: in every reachable state of a channel, the pixel tasks in task_queue,
\* the tasks held by workers, the results in result_queue and the results
\* already folded add up to the number of coordinates the producer has put,
\* which is at most total_pixels; once total_pixels results are folded no
\* pixel task is queued or held and the result queue is empty.
C20_MessageConservation == \A p \in Pools : Conserved(p)

\* the same, for the channels in which the sampler did not fail
C20_MessageConservationNoFailure ==
    \A p \in Pools : pools[p].crashed = 0 => Conserved(p)

====
